---- MODULE Spec2Model ----
(***************************************************************************)
(* Model of generate_proxy_config.py: ProxyConfigGenerator.run and the     *)
(* stages it calls.  Texts are sequences of one-character strings, so that *)
(* strip, split, the regular expressions, int() and slicing are computed   *)
(* on characters as the Python code computes them.                         *)
(***************************************************************************)
EXTENDS Integers, Sequences, FiniteSets, TLC

VARIABLES
    pc,             \* position of run(): the next stage to execute
    download,       \* how download_opera_proxy ended ("none" before it ran)
    opera_proxy,    \* TRUE while the file ./opera-proxy exists
    exists,         \* regions whose <region>_proxy_output.txt exists on disk
    content,        \* content[r]: the lines of <r>_proxy_output.txt
    outcomes,       \* how each invocation of the executable ended, in loop order
    region_files,   \* keys of the dict region_files, in insertion order
    extracted,      \* the pair returned by parse_proxy_credentials
    login,          \* run()'s local login after the fallback
    password,       \* run()'s local password after the fallback
    clash_config,   \* clash-config.yml: NoDocument, or the written 'proxies' list
    delete_failed,  \* files whose os.remove raised during cleanup
    calls,          \* stages run() has called so far, in call order
    result,         \* return value of run(): "running", "True" or "False"
    input_line,     \* line parser exploration: the line handed to the parser
    parsed          \* line parser exploration: the records it returned

vars == <<pc, download, opera_proxy, exists, content, outcomes, region_files,
          extracted, login, password, clash_config, delete_failed, calls,
          result, input_line, parsed>>

----------------------------------------------------------------------------
(* Bounds of the exploration *)

\* Lines the executable prints in one run, all regions together.
MaxLines == 2
\* os.remove calls that may raise in one cleanup.
MaxDeleteFailures == 1
\* Comma-separated fields of an explored line.
MaxFields == 4

----------------------------------------------------------------------------
(* Text primitives of Python used by the code *)

\* Whitespace removed by str.strip() and matched by \s (ASCII part).
Whitespace == {" ", "\t", "\n", "\r"}

RECURSIVE lstrip(_)
lstrip(s) ==
    IF s # <<>> /\ Head(s) \in Whitespace THEN lstrip(Tail(s)) ELSE s

RECURSIVE rstrip(_)
rstrip(s) ==
    IF s # <<>> /\ s[Len(s)] \in Whitespace
    THEN rstrip(SubSeq(s, 1, Len(s) - 1))
    ELSE s

\* str.strip()
strip(s) == rstrip(lstrip(s))

\* str.startswith(c) for a one-character prefix
startswith(s, c) == s # <<>> /\ Head(s) = c

\* str.split(sep) for a one-character separator: always at least one part.
RECURSIVE split_from(_, _, _, _)
split_from(s, sep, cur, acc) ==
    IF s = <<>> THEN Append(acc, cur)
    ELSE IF Head(s) = sep THEN split_from(Tail(s), sep, <<>>, Append(acc, cur))
    ELSE split_from(Tail(s), sep, Append(cur, Head(s)), acc)

split(s, sep) == split_from(s, sep, <<>>, <<>>)

Digits == <<"0", "1", "2", "3", "4", "5", "6", "7", "8", "9">>

IsDigit(c) == \E d \in DOMAIN Digits : Digits[d] = c

DigitValue(c) == (CHOOSE d \in DOMAIN Digits : Digits[d] = c) - 1

\* Value of a digit string in which int() ignores single underscores.
RECURSIVE DigitsValue(_, _)
DigitsValue(s, acc) ==
    IF s = <<>> THEN acc
    ELSE IF Head(s) = "_" THEN DigitsValue(Tail(s), acc)
    ELSE DigitsValue(Tail(s), acc * Len(Digits) + DigitValue(Head(s)))

\* The digit part int() accepts: digits, single underscores only between digits.
DigitGroup(b) ==
    /\ b # <<>>
    /\ IsDigit(b[1])
    /\ IsDigit(b[Len(b)])
    /\ \A k \in DOMAIN b : IsDigit(b[k]) \/ b[k] = "_"
    /\ \A k \in 1..(Len(b) - 1) : ~(b[k] = "_" /\ b[k + 1] = "_")

\* int(s) in base 10: ok = FALSE stands for ValueError.
int(s) ==
    LET t      == strip(s)
        signed == t # <<>> /\ Head(t) \in {"+", "-"}
        body   == IF signed THEN Tail(t) ELSE t
    IN  IF DigitGroup(body)
        THEN [ok |-> TRUE,
              value |-> IF signed /\ Head(t) = "-"
                        THEN 0 - DigitsValue(body, 0)
                        ELSE DigitsValue(body, 0)]
        ELSE [ok |-> FALSE, value |-> 0]

\* The text read from a file: every line followed by a newline.
RECURSIVE read(_)
read(lines) ==
    IF lines = <<>> THEN <<>> ELSE Head(lines) \o <<"\n">> \o read(Tail(lines))

----------------------------------------------------------------------------
(* Configuration compiled into the program *)

\* The one-character strings "U+xxxx" stand for the CJK characters of the labels.
region_map(region) ==
    CASE region = "AM" -> <<"U+7F8E", "U+56FD">>
      [] region = "AS" -> <<"U+65B0", "U+52A0", "U+5761">>
      [] region = "EU" -> <<"U+632A", "U+5A01">>
      [] OTHER -> <<region>>

regions == <<"EU", "AS", "AM">>

Regions == {regions[k] : k \in DOMAIN regions}

LoginLabel == <<"P", "r", "o", "x", "y", " ", "l", "o", "g", "i", "n", ":">>

PasswordLabel ==
    <<"P", "r", "o", "x", "y", " ", "p", "a", "s", "s", "w", "o", "r", "d", ":">>

default_user == <<"d", "e", "f", "a", "u", "l", "t", "_", "u", "s", "e", "r">>

default_pass == <<"d", "e", "f", "a", "u", "l", "t", "_", "p", "a", "s", "s">>

MinPort == 1

MaxPort == 65535

PrefixLen == 3

NoDocument == "no document"

----------------------------------------------------------------------------
(* parse_proxy_credentials *)

\* \s* from position i: the first position at or after i holding no whitespace.
RECURSIVE skip_space(_, _)
skip_space(text, i) ==
    IF i <= Len(text) /\ text[i] \in Whitespace THEN skip_space(text, i + 1) ELSE i

\* (\S+) from position i: the last position of the run of non-whitespace.
RECURSIVE token_end(_, _)
token_end(text, i) ==
    IF i + 1 <= Len(text) /\ text[i + 1] \notin Whitespace
    THEN token_end(text, i + 1)
    ELSE i

\* The pattern  <label>\s*(\S+)  matches starting at position i.
match_at(label, text, i) ==
    /\ i + Len(label) - 1 <= Len(text)
    /\ \A k \in DOMAIN label : text[i + k - 1] = label[k]
    /\ skip_space(text, i + Len(label)) <= Len(text)

\* re.search(label + r'\s*(\S+)', text): the leftmost match and its group 1.
re_search(label, text) ==
    LET hits == {i \in 1..Len(text) : match_at(label, text, i)}
    IN  IF hits = {}
        THEN [found |-> FALSE, group1 |-> <<>>]
        ELSE LET i == CHOOSE h \in hits : \A g \in hits : h <= g
                 j == skip_space(text, i + Len(label))
             IN  [found |-> TRUE, group1 |-> SubSeq(text, j, token_end(text, j))]

\* A later capture replaces the value already taken.
take_match_last(current, m) == IF m.found THEN m.group1 ELSE current

\* if login_match and not login: login = login_match.group(1)
take_match(current, m) ==
    IF m.found /\ current = <<>> THEN m.group1 ELSE current

\* The for loop over region_files.items(), left by break once both are set.
RECURSIVE credentials_loop(_, _, _, _)
credentials_loop(keys, files, l, p) ==
    IF keys = <<>> THEN <<l, p>>
    ELSE LET text == read(files[Head(keys)])
             l2   == take_match(l, re_search(LoginLabel, text))
             p2   == take_match(p, re_search(PasswordLabel, text))
         IN  IF l2 # <<>> /\ p2 # <<>>
             THEN <<l2, p2>>
             ELSE credentials_loop(Tail(keys), files, l2, p2)

parse_proxy_credentials(keys, files) == credentials_loop(keys, files, <<>>, <<>>)

----------------------------------------------------------------------------
(* parse_proxy_servers *)

\* re.match(r'^[^,]+,[^,]+,[^,]+$', line): three non-empty comma-free fields.
record_pattern(line) ==
    LET fields == split(line, ",")
    IN  Len(fields) = 3 /\ \A k \in DOMAIN fields : fields[k] # <<>>

\* A ValueError of int() leaves the loop instead of being caught in it.
parse_line_uncaught(servers, raw) ==
    LET line == strip(raw)
    IN  IF line = <<>> \/ startswith(line, "#")
        THEN [servers |-> servers, raised |-> FALSE]
        ELSE IF record_pattern(line)
        THEN LET parts    == split(line, ",")
                 port_int == int(strip(parts[3]))
             IN  IF ~port_int.ok
                 THEN [servers |-> servers, raised |-> TRUE]
                 ELSE IF MinPort <= port_int.value /\ port_int.value <= MaxPort
                 THEN [servers |-> Append(servers, [host |-> strip(parts[1]),
                                                    ip   |-> strip(parts[2]),
                                                    port |-> port_int.value]),
                       raised |-> FALSE]
                 ELSE [servers |-> servers, raised |-> FALSE]
        ELSE [servers |-> servers, raised |-> FALSE]

\* One iteration of the loop over the lines: the list after the line, and
\* whether an exception left the loop body (none does: ValueError is caught).
parse_line(servers, raw) ==
    LET line == strip(raw)
    IN  IF line = <<>> \/ startswith(line, "#")
        THEN [servers |-> servers, raised |-> FALSE]
        ELSE IF record_pattern(line)
        THEN LET parts == split(line, ",")
             IN  IF Len(parts) = 3
                 THEN LET host     == strip(parts[1])
                          ip       == strip(parts[2])
                          port     == strip(parts[3])
                          port_int == int(port)
                      IN  IF port_int.ok
                          THEN IF MinPort <= port_int.value /\ port_int.value <= MaxPort
                               THEN [servers |-> Append(servers, [host |-> host,
                                                                  ip   |-> ip,
                                                                  port |-> port_int.value]),
                                     raised |-> FALSE]
                               ELSE [servers |-> servers, raised |-> FALSE]
                          ELSE [servers |-> servers, raised |-> FALSE]
                 ELSE [servers |-> servers, raised |-> FALSE]
        ELSE [servers |-> servers, raised |-> FALSE]

\* The loop over the lines; an exception leaving the body ends it (line 128).
RECURSIVE servers_loop(_, _)
servers_loop(servers, lines) ==
    IF lines = <<>> THEN servers
    ELSE LET step == parse_line(servers, Head(lines))
         IN  IF step.raised THEN step.servers
             ELSE servers_loop(step.servers, Tail(lines))

parse_proxy_servers(lines) == servers_loop(<<>>, lines)

----------------------------------------------------------------------------
(* generate_clash_config *)

\* server['host'][:3] if len(server['host']) >= 3 else server['host']
host_prefix(host) ==
    IF Len(host) >= PrefixLen THEN SubSeq(host, 1, PrefixLen) ELSE host

\* f"{country_cn}-{prefix}"
proxy_name(country_cn, host) == country_cn \o <<"-">> \o host_prefix(host)

proxy_config(country_cn, server, user, pass) ==
    [name             |-> proxy_name(country_cn, server.host),
     type             |-> "http",
     server           |-> server.ip,
     port             |-> server.port,
     username         |-> user,
     password         |-> pass,
     tls              |-> TRUE,
     skip_cert_verify |-> FALSE,
     sni              |-> server.host]

\* The inner loop: one entry per server of the region, appended in order.
RECURSIVE append_servers(_, _, _, _, _)
append_servers(proxies, country_cn, servers, user, pass) ==
    IF servers = <<>> THEN proxies
    ELSE append_servers(Append(proxies, proxy_config(country_cn, Head(servers), user, pass)),
                        country_cn, Tail(servers), user, pass)

\* The outer loop over region_files.items().
RECURSIVE proxies_loop(_, _, _, _, _)
proxies_loop(proxies, keys, files, user, pass) ==
    IF keys = <<>> THEN proxies
    ELSE proxies_loop(append_servers(proxies, region_map(Head(keys)),
                                     parse_proxy_servers(files[Head(keys)]),
                                     user, pass),
                      Tail(keys), files, user, pass)

\* The 'proxies' list written to clash-config.yml.
generate_clash_config(keys, files, user, pass) ==
    proxies_loop(<<>>, keys, files, user, pass)

----------------------------------------------------------------------------
(* What the executable may print: the lines of the explored captures *)

LineLogin1 ==
    <<"P", "r", "o", "x", "y", " ", "l", "o", "g", "i", "n", ":", " ", "u", "1">>

LineLogin2 ==
    <<"P", "r", "o", "x", "y", " ", "l", "o", "g", "i", "n", ":", " ", "u", "2">>

LinePassword1 ==
    <<"P", "r", "o", "x", "y", " ", "p", "a", "s", "s", "w", "o", "r", "d", ":",
      " ", "p", "1">>

LinePassword2 ==
    <<"P", "r", "o", "x", "y", " ", "p", "a", "s", "s", "w", "o", "r", "d", ":",
      " ", "p", "2">>

\* exa1,ip1,80
LineServerA == <<"e", "x", "a", "1", ",", "i", "p", "1", ",", "8", "0">>

\* " exa2, ip2 ,443 " : padded, the same first three host characters as LineServerA
LineServerB ==
    <<" ", "e", "x", "a", "2", ",", " ", "i", "p", "2", " ", ",", "4", "4", "3", " ">>

\* eu,ip3,8080 : a host shorter than the name prefix
LineServerShort == <<"e", "u", ",", "i", "p", "3", ",", "8", "0", "8", "0">>

\* # exd,ip6,80
LineComment == <<"#", " ", "e", "x", "d", ",", "i", "p", "6", ",", "8", "0">>

\* bad-line-no-commas
LineNoCommas ==
    <<"b", "a", "d", "-", "l", "i", "n", "e", "-", "n", "o", "-", "c", "o", "m",
      "m", "a", "s">>

\* exb,ip4,99999
LinePortRange == <<"e", "x", "b", ",", "i", "p", "4", ",", "9", "9", "9", "9", "9">>

\* exc,ip5,8o
LinePortText == <<"e", "x", "c", ",", "i", "p", "5", ",", "8", "o">>

CaptureLines ==
    {LineLogin1, LineLogin2, LinePassword1, LinePassword2, LineServerA,
     LineServerB, LineServerShort, LineComment, LineNoCommas, LinePortRange,
     LinePortText}

\* Sequences over S of length at most n.
SeqUpTo(S, n) == UNION {[1..k -> S] : k \in 0..n}

\* Lines written to the capture files so far.
RECURSIVE LinesUsed(_, _)
LinesUsed(files, todo) ==
    IF todo = {} THEN 0
    ELSE LET r == CHOOSE x \in todo : TRUE
         IN  Len(files[r]) + LinesUsed(files, todo \ {r})

----------------------------------------------------------------------------
(* run() and its stages *)

Init ==
    /\ pc = "download"
    /\ download = "none"
    /\ opera_proxy = FALSE
    /\ exists = {}
    /\ content = [r \in Regions |-> <<>>]
    /\ outcomes = <<>>
    /\ region_files = <<>>
    /\ extracted = <<<<>>, <<>>>>
    /\ login = <<>>
    /\ password = <<>>
    /\ clash_config = NoDocument
    /\ delete_failed = {}
    /\ calls = <<>>
    /\ result = "running"
    /\ input_line = <<>>
    /\ parsed = <<>>

\* except Exception in run(): the traceback is printed and run() returns False.
Abort ==
    /\ pc' = "done"
    /\ result' = "False"

\* Step 1, download_opera_proxy: wget, then chmod; CalledProcessError of either
\* is re-raised and ends run().  A failed wget -O may or may not leave a file.
download_opera_proxy ==
    /\ pc = "download"
    /\ calls' = Append(calls, "download_opera_proxy")
    /\ \E how \in {"ok", "wget failed", "chmod failed"} :
         /\ download' = how
         /\ IF how = "ok"
            THEN /\ opera_proxy' = TRUE
                 /\ pc' = "collect"
                 /\ UNCHANGED result
            ELSE /\ opera_proxy' \in (IF how = "wget failed" THEN BOOLEAN ELSE {TRUE})
                 /\ Abort
    /\ UNCHANGED <<exists, content, outcomes, region_files, extracted, login,
                   password, clash_config, delete_failed, input_line, parsed>>

\* What subprocess.run without check=True can do: return with an exit status,
\* or raise OSError when the executable cannot be started.
InvokeOutcomes == {"exit 0", "exit 1", "OSError"}

\* except subprocess.CalledProcessError (line 58)
handled(exception) == exception = "CalledProcessError"

\* Step 2, generate_proxy_configs: one iteration of the loop over the regions.
\* open(output_file, 'w') creates the file before the executable is started.
\* The output of a failed invocation is never read and is kept empty here.
generate_proxy_configs ==
    /\ pc = "collect"
    /\ LET region == regions[Len(outcomes) + 1]
           last   == Len(outcomes) + 1 = Len(regions)
       IN  /\ calls' = IF outcomes = <<>>
                       THEN Append(calls, "generate_proxy_configs")
                       ELSE calls
           /\ exists' = exists \cup {region}
           /\ \E how \in InvokeOutcomes :
                /\ outcomes' = Append(outcomes, how)
                /\ IF how = "exit 0"
                   THEN /\ \E lines \in SeqUpTo(CaptureLines,
                                                MaxLines - LinesUsed(content, Regions)) :
                              content' = [content EXCEPT ![region] = lines]
                        /\ region_files' = Append(region_files, region)
                        /\ pc' = IF last THEN "check" ELSE "collect"
                        /\ UNCHANGED result
                   ELSE IF how = "exit 1" \/ handled(how)
                   THEN /\ pc' = IF last THEN "check" ELSE "collect"
                        /\ UNCHANGED <<content, region_files, result>>
                   ELSE /\ Abort
                        /\ UNCHANGED <<content, region_files>>
    /\ UNCHANGED <<download, opera_proxy, extracted, login, password,
                   clash_config, delete_failed, input_line, parsed>>

\* The test is skipped: run() goes on with an empty mapping.
no_regions_ignored(keys) == FALSE

\* if not region_files (line 214)
no_regions(keys) == keys = <<>>

\* Lines 214-216: no region succeeded, run() returns False.
check_region_files ==
    /\ pc = "check"
    /\ IF no_regions(region_files)
       THEN Abort
       ELSE pc' = "credentials" /\ UNCHANGED result
    /\ UNCHANGED <<download, opera_proxy, exists, content, outcomes, region_files,
                   extracted, login, password, clash_config, delete_failed,
                   calls, input_line, parsed>>

\* Step 3, line 219: login, password = self.parse_proxy_credentials(region_files)
extract_credentials ==
    /\ pc = "credentials"
    /\ calls' = Append(calls, "parse_proxy_credentials")
    /\ extracted' = parse_proxy_credentials(region_files, content)
    /\ pc' = "fallback"
    /\ UNCHANGED <<download, opera_proxy, exists, content, outcomes, region_files,
                   login, password, clash_config, delete_failed, result,
                   input_line, parsed>>

\* The empty field is kept.
or_default_missing(value, default) == value

\* login or "default_user"
or_default(value, default) == IF value = <<>> THEN default ELSE value

\* Lines 221-225: placeholders for the fields that were not found.
credential_fallback ==
    /\ pc = "fallback"
    /\ IF extracted[1] = <<>> \/ extracted[2] = <<>>
       THEN /\ login' = or_default(extracted[1], default_user)
            /\ password' = or_default(extracted[2], default_pass)
       ELSE /\ login' = extracted[1]
            /\ password' = extracted[2]
    /\ pc' = "emit"
    /\ UNCHANGED <<download, opera_proxy, exists, content, outcomes, region_files,
                   extracted, clash_config, delete_failed, calls, result,
                   input_line, parsed>>

\* Step 4, line 228: the document is built and written in one piece.
emit_clash_config ==
    /\ pc = "emit"
    /\ calls' = Append(calls, "generate_clash_config")
    /\ clash_config' = generate_clash_config(region_files, content, login, password)
    /\ pc' = "cleanup"
    /\ UNCHANGED <<download, opera_proxy, exists, content, outcomes, region_files,
                   extracted, login, password, delete_failed, result,
                   input_line, parsed>>

\* Step 5, cleanup: os.remove of the files named in region_files and of the
\* executable; a raising os.remove is logged and the file stays.  Then
\* run() returns True.
cleanup ==
    /\ pc = "cleanup"
    /\ calls' = Append(calls, "cleanup")
    /\ LET targets == {region_files[k] : k \in DOMAIN region_files}
                          \cup (IF opera_proxy THEN {"opera-proxy"} ELSE {})
       IN  \E failing \in SUBSET targets :
             /\ Cardinality(failing) <= MaxDeleteFailures
             /\ delete_failed' = failing
             /\ exists' = exists \ (targets \ failing)
             /\ opera_proxy' = ("opera-proxy" \in failing)
    /\ pc' = "done"
    /\ result' = "True"
    /\ UNCHANGED <<download, content, outcomes, region_files, extracted, login,
                   password, clash_config, input_line, parsed>>

Next ==
    \/ download_opera_proxy
    \/ generate_proxy_configs
    \/ check_region_files
    \/ extract_credentials
    \/ credential_fallback
    \/ emit_clash_config
    \/ cleanup

Spec == Init /\ [][Next]_vars

----------------------------------------------------------------------------
(* parse_proxy_servers on one line, over lines built from a set of fields *)

LineFields ==
    {<<>>, <<" ">>, <<"h">>, <<"#", "h">>, <<" ", "i", "p", " ">>,
     <<"8", "0">>, <<"0", "8", "0">>, <<" ", "4", "4", "3", "\t">>, <<"0">>,
     <<"6", "5", "5", "3", "5">>, <<"6", "5", "5", "3", "6">>, <<"8", "o">>,
     <<"+", "8", "0">>, <<"-", "1">>, <<"8", "_", "0">>}

\* ','.join(fields)
RECURSIVE join(_)
join(fields) ==
    IF Len(fields) = 1 THEN Head(fields)
    ELSE Head(fields) \o <<",">> \o join(Tail(fields))

\* The lines of at most n fields.
LinesOfFields(n) == {join(f) : f \in SeqUpTo(LineFields, n) \ {<<>>}}

Unparsed == "unparsed"

InitLines ==
    /\ pc = "line"
    /\ input_line \in LinesOfFields(MaxFields)
    /\ parsed = Unparsed
    /\ download = "none"
    /\ opera_proxy = FALSE
    /\ exists = {}
    /\ content = [r \in Regions |-> <<>>]
    /\ outcomes = <<>>
    /\ region_files = <<>>
    /\ extracted = <<<<>>, <<>>>>
    /\ login = <<>>
    /\ password = <<>>
    /\ clash_config = NoDocument
    /\ delete_failed = {}
    /\ calls = <<>>
    /\ result = "running"

\* parse_proxy_servers on a file holding the one line.
parse_input_line ==
    /\ pc = "line"
    /\ parsed' = parse_proxy_servers(<<input_line>>)
    /\ pc' = "line parsed"
    /\ UNCHANGED <<download, opera_proxy, exists, content, outcomes, region_files,
                   extracted, login, password, clash_config, delete_failed,
                   calls, result, input_line>>

NextLines == parse_input_line

SpecLines == InitLines /\ [][NextLines]_vars

----------------------------------------------------------------------------
(* Vocabulary of the properties *)

Written == clash_config # NoDocument

\* The capture of the k-th collected region.
Capture(k) == content[region_files[k]]

AllDigits(s) == s # <<>> /\ \A k \in DOMAIN s : IsDigit(s[k])

\* The fields of a line that has the form host,ip,port once stripped:
\* not empty, no comment, exactly three non-empty comma-separated fields.
ThreeFields(line) ==
    LET t == strip(line)
        f == split(t, ",")
    IN  /\ t # <<>>
        /\ Head(t) # "#"
        /\ Len(f) = 3
        /\ \A k \in DOMAIN f : f[k] # <<>>

PortField(line) == strip(split(strip(line), ",")[3])

\* A line the specification calls a valid record: the three-field form and a
\* decimal port in MinPort..MaxPort.
ValidLine(line) ==
    /\ ThreeFields(line)
    /\ AllDigits(PortField(line))
    /\ DigitsValue(PortField(line), 0) \in MinPort..MaxPort

RecordOf(line) ==
    LET f == split(strip(line), ",")
    IN  [host |-> strip(f[1]), ip |-> strip(f[2]),
         port |-> DigitsValue(PortField(line), 0)]

\* The records of the valid lines of a list of lines, in line order.
RECURSIVE ValidRecords(_)
ValidRecords(lines) ==
    IF lines = <<>> THEN <<>>
    ELSE (IF ValidLine(Head(lines)) THEN <<RecordOf(Head(lines))>> ELSE <<>>)
             \o ValidRecords(Tail(lines))

\* The valid records of all collected captures, each with its region, in
\* region iteration order and then line order.
RECURSIVE ExpectedFrom(_)
ExpectedFrom(k) ==
    IF k > Len(region_files) THEN <<>>
    ELSE LET recs == ValidRecords(Capture(k))
         IN  [i \in DOMAIN recs |-> [region |-> region_files[k], record |-> recs[i]]]
                 \o ExpectedFrom(k + 1)

Expected == ExpectedFrom(1)

AllInvocationsFailed ==
    /\ Len(outcomes) = Len(regions)
    /\ \A k \in DOMAIN outcomes : outcomes[k] # "exit 0"

LaterStages == {"parse_proxy_credentials", "generate_clash_config", "cleanup"}

Called == {calls[k] : k \in DOMAIN calls}

----------------------------------------------------------------------------
(* Properties *)

\* C1: in every written document the name fields of the proxy entries are
\* pairwise distinct.
C1_NamesDistinct ==
    Written =>
        \A i, j \in DOMAIN clash_config :
            i # j => clash_config[i].name # clash_config[j].name

\* The name the collision rule gives entry k: the base name if no earlier
\* entry has it, else the base name with the smallest unused suffix -1, -2, ...
BaseName(k) ==
    region_map(Expected[k].region) \o <<"-">> \o host_prefix(Expected[k].record.host)

Suffixed(base, n) == base \o <<"-", Digits[n + 1]>>

RuleName(k) ==
    LET earlier == {clash_config[i].name : i \in 1..(k - 1)}
    IN  IF BaseName(k) \notin earlier THEN BaseName(k)
        ELSE LET free == {n \in 1..k : Suffixed(BaseName(k), n) \notin earlier}
             IN  Suffixed(BaseName(k), CHOOSE n \in free : \A m \in free : n <= m)

\* C2: an entry whose base name is already assigned gets the base name with
\* the smallest unused numeric suffix starting at 1; the first keeps the base.
C2_CollisionSuffix ==
    Written =>
        /\ Len(clash_config) = Len(Expected)
        /\ \A k \in DOMAIN clash_config : clash_config[k].name = RuleName(k)

\* C3: when a region was collected and no server record survives, run()
\* reports failure and no document is written.
C3_NoRecordsIsFatal ==
    (pc = "done" /\ region_files # <<>> /\ Expected = <<>>) =>
        (result = "False" /\ ~Written)

\* C4: after a failed download, or when every invocation failed, no later
\* stage is ever called, no document is written and run() ends with False.
C4_FatalBeforeExtraction ==
    (download \in {"wget failed", "chmod failed"} \/ AllInvocationsFailed) =>
        /\ Called \cap LaterStages = {}
        /\ ~Written
        /\ result # "True"
        /\ pc \in {"check", "done"}
        /\ pc = "done" => result = "False"

C4_Witness ==
    /\ pc = "done"
    /\ download = "ok"
    /\ outcomes = <<"exit 1", "exit 1", "exit 1">>
    /\ result = "False"

\* The regions whose invocation exited with status 0, in invocation order.
RECURSIVE ExitedZero(_)
ExitedZero(k) ==
    IF k > Len(outcomes) THEN <<>>
    ELSE (IF outcomes[k] = "exit 0" THEN <<regions[k]>> ELSE <<>>) \o ExitedZero(k + 1)

\* C5: no failure of one region ends the collection: once it is over every
\* region was invoked and the mapping holds exactly the regions that exited 0.
C5_RegionFailureSkipped ==
    (download = "ok" /\ pc \notin {"download", "collect"}) =>
        /\ Len(outcomes) = Len(regions)
        /\ region_files = ExitedZero(1)

\* The token of the first collected capture that has a match for the label;
\* empty when none has.
FirstToken(label) ==
    LET hits == {k \in DOMAIN region_files : re_search(label, read(Capture(k))).found}
    IN  IF hits = {} THEN <<>>
        ELSE re_search(label,
                       read(Capture(CHOOSE k \in hits : \A h \in hits : k <= h))).group1

\* C6: when parse_proxy_credentials has returned, login and password are, each
\* on its own, the token of the first collected capture in region order that
\* has a match for the field.
C6_FirstMatchWins ==
    (pc = "fallback") =>
        /\ extracted[1] = FirstToken(LoginLabel)
        /\ extracted[2] = FirstToken(PasswordLabel)

\* A later capture holds another login than the one taken from the first.
C6_Witness ==
    /\ pc = "fallback"
    /\ extracted[1] # <<>>
    /\ \E k \in DOMAIN region_files :
         LET m == re_search(LoginLabel, read(Capture(k)))
         IN  m.found /\ m.group1 # extracted[1]

\* C7: all entries of a written document carry one pair, never with an empty
\* field: a field that was not found carries its placeholder, a field that
\* was found carries the extracted token.
C7_OnePairNeverEmpty ==
    Written =>
        \A i, j \in DOMAIN clash_config :
            /\ clash_config[i].username = clash_config[j].username
            /\ clash_config[i].password = clash_config[j].password
            /\ clash_config[i].username # <<>>
            /\ clash_config[i].password # <<>>
            /\ clash_config[i].username =
                   (IF extracted[1] = <<>> THEN default_user ELSE extracted[1])
            /\ clash_config[i].password =
                   (IF extracted[2] = <<>> THEN default_pass ELSE extracted[2])

\* Two entries written although no login line was found.
C7_Witness ==
    /\ Written
    /\ Len(clash_config) >= 2
    /\ extracted[1] = <<>>

\* C8: every record parse_proxy_servers returns for a line comes from a line
\* of the three-field form, has a non-empty host and ip and a port in
\* MinPort..MaxPort that is the decimal value of the port field; a line not of
\* the three-field form gives no record.
C8_RecordsWellFormed ==
    (pc = "line parsed") =>
        /\ ~ThreeFields(input_line) => parsed = <<>>
        /\ \A k \in DOMAIN parsed :
             /\ ThreeFields(input_line)
             /\ parsed[k].host # <<>>
             /\ parsed[k].ip # <<>>
             /\ parsed[k].port \in MinPort..MaxPort
             /\ AllDigits(PortField(input_line))
             /\ parsed[k].port = DigitsValue(PortField(input_line), 0)

\* C9: the entries generate_clash_config has just written are exactly the
\* records of the valid lines of the collected captures, in region and line
\* order, whatever invalid lines stand between them; and a run whose
\* invocations raised nothing ends in success with a written document when a
\* valid record exists (it fails only when there is none).
C9_BadLineDropsOnlyItself ==
    /\ (pc = "cleanup") =>
         LET expected == Expected
         IN  /\ Len(clash_config) = Len(expected)
             /\ \A k \in DOMAIN clash_config :
                  /\ clash_config[k].sni = expected[k].record.host
                  /\ clash_config[k].server = expected[k].record.ip
                  /\ clash_config[k].port = expected[k].record.port
    /\ (pc = "done" /\ (\A k \in DOMAIN outcomes : outcomes[k] # "OSError")
            /\ ~(result = "True" /\ Written)) =>
         Expected = <<>>

\* A successful run in which a valid line follows an invalid one.
C9_Witness ==
    /\ pc = "done"
    /\ result = "True"
    /\ clash_config # <<>>
    /\ \E k \in DOMAIN region_files :
         \E i, j \in DOMAIN Capture(k) :
            /\ i < j
            /\ ~ValidLine(Capture(k)[i])
            /\ strip(Capture(k)[i]) # <<>>
            /\ ValidLine(Capture(k)[j])

\* C10: when a run that started collecting has ended and no deletion failed,
\* no capture file and no executable is left.
C10_TemporaryFilesDeleted ==
    (pc = "done" /\ outcomes # <<>> /\ delete_failed = {}) =>
        (exists = {} /\ ~opera_proxy)

====
